---- MODULE Spec2Model ----
(***************************************************************************)
(* The ownership and lifetime model of src/src/webview.rs: the owning      *)
(* Webview, the weak WebviewMut and the dispatch / bind callback bridge,   *)
(* for the native backend (mod webview_backend) and the chrome backend     *)
(* (mod chrome_backend).  The backend is a compile-time feature; it is     *)
(* chosen in Init and never changes.                                       *)
(***************************************************************************)
EXTENDS Integers, Sequences, FiniteSets, Bags, TLC

\* ------------------------------------------------------------------ bounds
\* Values in one behaviour, in all: owning Webviews alive (the one create()
\* returns and its clones), WebviewMuts, and closures given to dispatch or bind.
MaxObjs == 3
\* Calls of one bound function by page script.
MaxInv == 2
\* Signals pending on the shutdown channel.
MaxSignals == 2
\* Operations in flight at once on one WebviewMut through &self.
MaxShared == 2

DC == 1..MaxObjs
BC == 1..MaxObjs

\* ----------------------------------------------------------------- strings
\* A &str is a sequence of bytes; byte 0 is the NUL byte CString::new rejects.
Empty == <<>>

\* The strings the operations are called with: urls, names of bound
\* functions, and (seq, result) pairs of return.
Urls == {<<1>>, <<1, 0, 2>>}
BindNames == {<<1>>, <<1, 0, 2>>}
ReturnArgs == {<<<<1>>, <<2>>>>, <<<<1, 0, 2>>, <<2>>>>}
\* The (seq, req) pair of the k-th call page script makes of a bound function:
\* the engine numbers the calls, the payload here is the number again.
ScriptCall(k) == <<<<k>>, <<k>>>>

\* The strings set_title and eval are called with (bytes 65 'A', 34 '"').
Titles == {<<65, 34>>}
Scripts == {<<65>>}

\* enum SizeHint, and the (width, height) pairs set_size is called with: an
\* i32 each, one pair with a width that is no u32.
SizeHint == {"NONE", "MIN", "MAX", "FIXED"}
Sizes == {<<2, 3>>, <<-1, 3>>}

\* (mutant) the variant's position counted from 1.
SizeHintFromOne(h) ==
  CASE h = "NONE" -> 1
    [] h = "MIN" -> 2
    [] h = "MAX" -> 3
    [] h = "FIXED" -> 4

\* #[repr(i32)] enum SizeHint: `hints as i32` is the variant's discriminant.
SizeHintAsI32(h) ==
  CASE h = "NONE" -> 0
    [] h = "MIN" -> 1
    [] h = "MAX" -> 2
    [] h = "FIXED" -> 3

\* impl Default for SizeHint.
SizeHintDefault == "NONE"

\* i32::try_into::<u32>() succeeds exactly for the values that are not negative.
TryIntoU32Ok(n) == n >= 0

\* serde_json::to_string of a JSON string: the bytes between double quotes,
\* '"' and '\' preceded by a backslash (92).
RECURSIVE JsonEscape(_)
JsonEscape(s) ==
  IF s = <<>> THEN <<>>
  ELSE (IF Head(s) \in {34, 92} THEN <<92, Head(s)>> ELSE <<Head(s)>>)
       \o JsonEscape(Tail(s))

JsonString(s) == <<34>> \o JsonEscape(s) \o <<34>>

\* format!("document.title = {}", ..): the script set_title evaluates.
TitleScript(t) ==
  <<100, 111, 99, 117, 109, 101, 110, 116, 46, 116, 105, 116, 108, 101, 32, 61, 32>>
  \o JsonString(t)

HasNul(s) == \E i \in 1..Len(s) : s[i] = 0

\* CString::new(s).expect(..): the bytes of s followed by the terminating NUL
\* (only evaluated where HasNul(s) is false; with a NUL the expect panics).
CStringNew(s) == Append(s, 0)

RECURSIVE UpToNul(_)
UpToNul(bytes) ==
  IF bytes = <<>> \/ Head(bytes) = 0 THEN <<>>
  ELSE <<Head(bytes)>> \o UpToNul(Tail(bytes))

\* CStr::from_ptr(p).to_str(): the bytes up to, not including, the first NUL.
CStrToStr(bytes) == UpToNul(bytes)

\* ------------------------------------------------------------ engine calls
\* One call across the engine boundary: the function, its string arguments as
\* passed (C strings for the native engine) and its closure pointer.
Call(fn, s1, s2, c) == [fn |-> fn, s1 |-> s1, s2 |-> s2, c |-> c]
Call0(fn) == Call(fn, Empty, Empty, 0)

Args(s1, s2, c) == [s1 |-> s1, s2 |-> s2, c |-> c]
NoArgs == Args(Empty, Empty, 0)

\* The outcome of one facade operation: how it ended, the engine calls it made
\* in order, the shutdown signals it sent and the closure it ran synchronously.
Effect(res, calls, sigs, ran) ==
  [res |-> res, calls |-> calls, sigs |-> sigs, ran |-> ran]

VARIABLES
  backend,      \* "native" | "chrome"
  owners,       \* the owning Webviews alive and not in run(): the bag of their url fields
  strong,       \* Arc strong count of the shared cell
  weak,         \* WebviewMut values holding a Weak to the shared cell
  inflight,     \* the WebviewMut operations past their upgrade, not yet ended (a bag)
  runSt,        \* run(): "idle" | "launched" | "blocked" | "returned" | "panicked"
  runner,       \* the Webview run() is executing on: << its url >>, or << >>
  quit,         \* native engine: webview_terminate has been called
  chan,         \* chrome: signals pending on the shutdown channel
  tab,          \* chrome: WebviewData.tab is Some
  dq,           \* native engine: the queue of webview_dispatch callbacks
  dcl,          \* dispatch closures: "unused" | "passed" | "boxed" | "consumed" | "dropped"
  druns,        \* how often each dispatch closure has run
  bcl,          \* bind closures: "unused" | "passed" | "allocated" | "freed" | "dropped"
  bname,        \* native engine: closure registered for each bound name (0: none)
  einv,         \* native engine: the (seq, req) pairs it invoked each registration with
  bcalls,       \* the (seq, req) pairs each bind closure was called with
  destroyed,    \* webview_destroy calls on the handle
  termIssued,   \* a terminate() has signalled termination
  rw,           \* chrome: the RwLock around WebviewData: guards held between steps
  probeOk,      \* chrome: the connection to the browser is up (the probe succeeds)
  vopen,        \* native: a dispatch closure that took as_mut() of its view is running
  vweak,        \* WebviewMut values made by as_mut() on a dispatch callback's view
  vinfl,        \* the operations on such a WebviewMut past their upgrade (a bag)
  last          \* the operation that just ended and its outcome

vars == <<backend, owners, strong, weak, inflight, runSt, runner, quit, chan,
          tab, dq, dcl, druns, bcl, bname, einv, bcalls, destroyed, termIssued,
          rw, probeOk, vopen, vweak, vinfl, last>>


\* ------------------------------------------------- what each operation does
Ops == {"terminate", "get_window", "dispatch", "bind", "return"}

\* webview_backend::Webview: terminate, get_window, dispatch, bind, return.
\* (return's status is a c_int handed through unchanged; it is left out.)
NativeWebviewEffect(op, a) ==
  CASE op = "terminate" -> Effect("Ok", <<Call0("webview_terminate")>>, 0, 0)
    [] op = "get_window" -> Effect("Ok", <<Call0("webview_get_window")>>, 0, 0)
    [] op = "dispatch" ->
         Effect("Ok", <<Call("webview_dispatch", Empty, Empty, a.c)>>, 0, 0)
    [] op = "bind" ->
         IF HasNul(a.s1) THEN Effect("Panic", <<>>, 0, 0)
         ELSE Effect("Ok", <<Call("webview_bind", CStringNew(a.s1), Empty, a.c)>>, 0, 0)
    [] op = "return" ->
         IF HasNul(a.s1) \/ HasNul(a.s2) THEN Effect("Panic", <<>>, 0, 0)
         ELSE Effect("Ok",
                     <<Call("webview_return", CStringNew(a.s1), CStringNew(a.s2), 0)>>,
                     0, 0)

\* chrome_backend::Webview: terminate sends on the shutdown channel, get_window
\* is unimplemented!, dispatch calls f(self), bind and return only warn.
ChromeWebviewEffect(op, a) ==
  CASE op = "terminate" -> Effect("Ok", <<>>, 1, 0)
    [] op = "get_window" -> Effect("Panic", <<>>, 0, 0)
    [] op = "dispatch" -> Effect("Ok", <<>>, 0, a.c)
    [] op = "bind" -> Effect("Ok", <<>>, 0, 0)
    [] op = "return" -> Effect("Ok", <<>>, 0, 0)

WebviewEffect(b, op, a) ==
  IF b = "native" THEN NativeWebviewEffect(op, a) ELSE ChromeWebviewEffect(op, a)

\* Whether a WebviewMut operation starts with self.0.upgrade(): every native
\* one does; of the chrome ones only terminate.
WmUpgrades(b, op) == b = "native" \/ op = "terminate"

\* webview_backend::WebviewMut, after a successful upgrade.
NativeWmEffect(op, a) ==
  CASE op = "terminate" -> Effect("Ok", <<Call0("webview_terminate")>>, 0, 0)
    [] op = "get_window" -> Effect("Ok", <<Call0("webview_get_window")>>, 0, 0)
    [] op = "dispatch" ->
         Effect("Ok", <<Call("webview_dispatch", Empty, Empty, a.c)>>, 0, 0)
    [] op = "bind" ->
         IF HasNul(a.s1) THEN Effect("Panic", <<>>, 0, 0)
         ELSE Effect("Ok", <<Call("webview_bind", CStringNew(a.s1), Empty, a.c)>>, 0, 0)
    [] op = "return" ->
         IF HasNul(a.s1) \/ HasNul(a.s2) THEN Effect("Panic", <<>>, 0, 0)
         ELSE Effect("Ok",
                     <<Call("webview_return", CStringNew(a.s1), CStringNew(a.s2), 0)>>,
                     0, 0)

\* chrome_backend::WebviewMut: terminate (after its upgrade) sends on the
\* channel; get_window and dispatch are unimplemented!; bind and return warn
\* and return Ok(()).
ChromeWmEffect(op, a) ==
  CASE op = "terminate" -> Effect("Ok", <<>>, 1, 0)
    [] op = "get_window" -> Effect("Panic", <<>>, 0, 0)
    [] op = "dispatch" -> Effect("Panic", <<>>, 0, 0)
    [] op = "bind" -> Effect("Ok", <<>>, 0, 0)
    [] op = "return" -> Effect("Ok", <<>>, 0, 0)

WmEffect(b, op, a) ==
  IF b = "native" THEN NativeWmEffect(op, a) ELSE ChromeWmEffect(op, a)

\* (mutant) a drop that always releases the handle.
DropCallsAlways(sc) == <<Call0("webview_terminate"), Call0("webview_destroy")>>

\* (mutant) a drop that releases the handle when it holds the last reference.
DropCallsWhenLast(sc) ==
  IF sc = 1 THEN <<Call0("webview_terminate"), Call0("webview_destroy")>>
  ELSE <<>>

\* (mutant) an upgrade that needs a strong reference besides the last one.
UpgradeNeedsTwo(sc) == sc > 1

\* self.0.upgrade().ok_or(Error::WebviewNull): Weak::upgrade succeeds exactly
\* when the strong count is not zero.
UpgradeOk(sc) == sc > 0

\* impl Drop for Webview: the engine calls drop() makes, given the value of
\* Arc::strong_count(&self.inner) it reads.
DropCalls(sc) ==
  IF sc = 0 THEN <<Call0("webview_terminate"), Call0("webview_destroy")>>
  ELSE <<>>

\* ------------------------------------------------------------- the engine
HasCall(calls, fn) == \E i \in 1..Len(calls) : calls[i].fn = fn
CallsOf(calls, fn) == SelectSeq(calls, LAMBDA c : c.fn = fn)

\* The names the native engine can hold a binding for, as it receives them.
CNames == {CStringNew(s) : s \in {n \in BindNames : ~HasNul(n)}}

\* webview_terminate asks the main loop to stop; the request stays posted.
QuitAfter(q, calls) == q \/ HasCall(calls, "webview_terminate")

\* webview_dispatch appends (callback, arg) to the engine's queue.
DqAfter(q, calls) ==
  LET ds == CallsOf(calls, "webview_dispatch")
  IN q \o [i \in 1..Len(ds) |-> ds[i].c]

\* webview_bind records (callback, arg) under the name; a later bind of the
\* same name replaces it.
BnameAfter(bn, calls) ==
  LET bs == CallsOf(calls, "webview_bind")
  IN IF bs = <<>> THEN bn ELSE [bn EXCEPT ![bs[1].s1] = bs[1].c]

\* (mutant) a send that reaches only a recv() already waiting.
ShutdownSendIfWaiting(ch, n) == IF runSt = "blocked" THEN ch + n ELSE ch

\* Sender::send on the unbounded mpsc channel: the signal is queued whether
\* or not a recv() is waiting.
ShutdownSend(ch, n) == ch + n

DestroyedAfter(d, calls) == d + Len(CallsOf(calls, "webview_destroy"))

\* ------------------------------------------------------ the last operation
Running == IF backend = "chrome" THEN tab ELSE runSt = "blocked"

\* What held when the operation was invoked.
Pre ==
  [gone |-> strong = 0, owned |-> owners # EmptyBag \/ runner # <<>>,
   signalled |-> termIssued, running |-> Running]

\* A WebviewMut operation reads nothing of the session, and only terminate
\* has to do with an earlier terminate.
WmPre(op) ==
  [Pre EXCEPT !.running = FALSE, !.signalled = (op = "terminate" /\ termIssued)]

Out(kind, op, a, pre, eff) ==
  [kind |-> kind, op |-> op, a |-> a, owned |-> pre.owned,
   gone |-> pre.gone, signalled |-> pre.signalled, running |-> pre.running,
   res |-> eff.res, calls |-> eff.calls, sigs |-> eff.sigs, ran |-> eff.ran]

NoPre == [gone |-> FALSE, owned |-> FALSE, signalled |-> FALSE, running |-> FALSE]

NoLast == Out("none", "none", NoArgs, NoPre, Effect("None", <<>>, 0, 0))



\* ------------------------------------------------------------------- Init
\* The state after Webview::create(debug, None): one owning Webview with
\* url "", the cell's strong count 1, no WebviewMut, run() not yet called.
Init ==
  /\ backend \in {"native", "chrome"}
  /\ owners = SetToBag({Empty})
  /\ strong = 1
  /\ weak = 0
  /\ inflight = EmptyBag
  /\ runSt = "idle"
  /\ runner = <<>>
  /\ quit = FALSE
  /\ chan = 0
  /\ tab = FALSE
  /\ dq = <<>>
  /\ dcl = [c \in DC |-> "unused"]
  /\ druns = [c \in DC |-> 0]
  /\ bcl = [c \in BC |-> "unused"]
  /\ bname = [n \in CNames |-> 0]
  /\ einv = [c \in BC |-> <<>>]
  /\ bcalls = [c \in BC |-> <<>>]
  /\ destroyed = 0
  /\ termIssued = FALSE
  /\ rw = [readers |-> 0, writer |-> FALSE]
  /\ probeOk = TRUE
  /\ vopen = FALSE
  /\ vweak = 0
  /\ vinfl = EmptyBag
  /\ last = NoLast

\* ---------------------------------------------------------------- helpers
Min(S) == CHOOSE x \in S : \A y \in S : x <= y

\* The values counted against MaxObjs.
Created ==
  BagCardinality(owners) + Len(runner) + weak + vweak
  + Cardinality({c \in DC : dcl[c] # "unused"}) + Cardinality({c \in BC : bcl[c] # "unused"})

CanCreate == Created < MaxObjs

\* WebviewMut values with no operation in flight.  They differ in nothing
\* (each is a Weak to the one cell), so they are counted, not named.
IdleMuts == weak - BagCardinality(inflight)
FreshD == {c \in DC : dcl[c] = "unused"}
FreshB == {c \in BC : bcl[c] = "unused"}

\* Neither backend's Webview is Send: every owning Webview lives on the thread
\* that created it.  While run() executes, that thread runs nothing else,
\* except that the native engine's loop calls the bind and dispatch callbacks;
\* a bind closure can use a clone of the Webview (never the one run() borrows),
\* a dispatch closure is Send and holds none.
OwnerCanAct(u) ==
  /\ BagIn(u, owners)
  /\ \/ runSt \notin {"launched", "blocked"}
     \/ backend = "native" /\ runSt = "blocked" /\ ~vopen

\* The arguments an operation is called with; a closure argument is a closure
\* not used before.
ArgsFor(op) ==
  CASE op = "dispatch" -> {Args(Empty, Empty, Min(FreshD)) : x \in {1}}
    [] op = "bind" -> {Args(n, Empty, Min(FreshB)) : n \in BindNames}
    [] op = "return" -> {Args(x[1], x[2], 0) : x \in ReturnArgs}
    [] OTHER -> {NoArgs}

CanCall(op) == op \in {"dispatch", "bind"} => CanCreate

\* The engine's and the channel's state after an operation's calls and signals.
EngineApply(calls, sigs) ==
  /\ chan + sigs <= MaxSignals
  /\ quit' = QuitAfter(quit, calls)
  /\ dq' = DqAfter(dq, calls)
  /\ bname' = BnameAfter(bname, calls)
  /\ chan' = ShutdownSend(chan, sigs)
  /\ destroyed' = DestroyedAfter(destroyed, calls)
  /\ termIssued' = (termIssued \/ HasCall(calls, "webview_terminate") \/ sigs > 0)

\* What becomes of the closure an operation was given, once the operation ends:
\* Box::into_raw leaves it boxed with the engine, f(self) consumes it, every
\* other path drops it as the function returns or unwinds.
DispatchClosureAfter(eff, c) ==
  IF HasCall(eff.calls, "webview_dispatch") THEN "boxed"
  ELSE IF eff.ran = c THEN "consumed"
  ELSE "dropped"

BindClosureAfter(eff) ==
  IF HasCall(eff.calls, "webview_bind") THEN "allocated" ELSE "dropped"

ClosuresApply(op, a, eff) ==
  /\ dcl' = IF op = "dispatch"
            THEN [dcl EXCEPT ![a.c] = DispatchClosureAfter(eff, a.c)] ELSE dcl
  /\ druns' = IF op = "dispatch" /\ eff.ran = a.c
              THEN [druns EXCEPT ![a.c] = @ + 1] ELSE druns
  /\ bcl' = IF op = "bind" THEN [bcl EXCEPT ![a.c] = BindClosureAfter(eff)] ELSE bcl


\* --------------------------------------------------- the chrome RwLock
\* (mutant) a lock that admits one holder, reader or writer.
CanReadAlone(l) == ~l.writer /\ l.readers = 0

\* RwLock::read(): any number of readers, no writer.
CanRead(l) == ~l.writer

\* RwLock::write(): no other holder.
CanWrite(l) == ~l.writer /\ l.readers = 0

\* The operations that take self.data.read(): every chrome operation that
\* reads the tab or the shutdown sender.
TakesReadLock(b, op) ==
  b = "chrome" /\ op \in {"terminate", "set_title", "set_size", "eval", "navigate"}

\* ------------------------------------------------- the owning Webview
\* #[derive(Clone)]: a second owning Webview, with the same url, on the cell.
CloneWebview(u) ==
  /\ OwnerCanAct(u)
  /\ CanCreate
  /\ owners' = owners (+) SetToBag({u})
  /\ strong' = strong + 1
  /\ last' = NoLast
  /\ UNCHANGED <<backend, vopen, vweak, vinfl, rw, probeOk, weak, inflight, runSt, runner, quit, chan, tab, dq,
                 dcl, druns, bcl, bname, einv, bcalls, destroyed, termIssued>>

\* A Webview goes out of scope.  Native: Drop::drop reads the strong count
\* (the dropped value still holds its own reference) and then the Arc field
\* is dropped.  Chrome: no Drop impl, only the Arc field is dropped.
DropWebview(u) ==
  /\ OwnerCanAct(u)
  /\ LET calls == IF backend = "native" THEN DropCalls(strong) ELSE <<>>
     IN /\ EngineApply(calls, 0)
        /\ last' = Out("drop", "drop", NoArgs, Pre, Effect("Ok", calls, 0, 0))
  /\ owners' = owners (-) SetToBag({u})
  /\ strong' = strong - 1
  /\ UNCHANGED <<backend, vopen, vweak, vinfl, rw, probeOk, weak, inflight, runSt, runner, tab, dcl, druns,
                 bcl, einv, bcalls>>

\* as_mut(): WebviewMut(Arc::downgrade(..)).
AsMut(u) ==
  /\ OwnerCanAct(u)
  /\ CanCreate
  /\ weak' = weak + 1
  /\ last' = NoLast
  /\ UNCHANGED <<backend, vopen, vweak, vinfl, rw, probeOk, owners, strong, inflight, runSt, runner, quit, chan, tab,
                 dq, dcl, druns, bcl, bname, einv, bcalls, destroyed, termIssued>>

\* terminate, get_window, dispatch, bind, return on an owning Webview.  The
\* chrome dispatch runs the closure before it returns; the closure may call
\* terminate() on the Webview it is given (its as_mut() there is AsMut: the
\* Webview it is given is the owner itself).
WebviewOp(u, op, a, body) ==
  /\ OwnerCanAct(u)
  /\ TakesReadLock(backend, op) => CanRead(rw)
  /\ LET eff == WebviewEffect(backend, op, a)
         bodySigs == IF eff.ran # 0 /\ body = "terminate" THEN 1 ELSE 0
     IN /\ EngineApply(eff.calls, eff.sigs + bodySigs)
        /\ ClosuresApply(op, a, eff)
        /\ last' = Out("wv", op, a, Pre, eff)
  /\ UNCHANGED <<backend, vopen, vweak, vinfl, rw, probeOk, owners, strong, weak, inflight, runSt, runner, tab,
                 einv, bcalls>>

\* (mutant) a tab taken to be there before run() has stored it.
TabAssumedSome(t) == TRUE

\* if let Some(tab) = self.data.read().unwrap().tab.as_ref()
TabIsSome(t) == t

\* navigate(url): self.url = url; the chrome backend also navigates the tab
\* when WebviewData.tab is Some.
NavigateEffect(b, u, hasTab) ==
  IF b = "chrome" /\ TabIsSome(hasTab)
  THEN Effect("Ok", <<Call("tab.navigate_to", u, Empty, 0)>>, 0, 0)
  ELSE Effect("Ok", <<>>, 0, 0)

Navigate(u, v) ==
  /\ OwnerCanAct(u)
  /\ TakesReadLock(backend, "navigate") => CanRead(rw)
  /\ owners' = (owners (-) SetToBag({u})) (+) SetToBag({v})
  /\ last' = Out("wv", "navigate", Args(v, Empty, 0), Pre,
                 NavigateEffect(backend, v, tab))
  /\ UNCHANGED <<backend, vopen, vweak, vinfl, rw, probeOk, strong, weak, inflight, runSt, runner, quit, chan,
                 tab, dq, dcl, druns, bcl, bname, einv, bcalls, destroyed,
                 termIssued>>

\* set_title, set_size and eval on an owning Webview.  An argument is
\* Args(title or js, << >>, 0), or Args(<<width, height>>, <<hint>>, 0).
SetOps == {"set_title", "set_size", "eval"}

SetArgsFor(op) ==
  CASE op = "set_title" -> {Args(t, Empty, 0) : t \in Titles}
    [] op = "set_size" -> {Args(wh, <<h>>, 0) : wh \in Sizes, h \in SizeHint}
    [] op = "eval" -> {Args(js, Empty, 0) : js \in Scripts}

\* webview_backend::Webview: CString::new(..).expect(..) of the string, then
\* the engine call; set_size passes width, height and `hints as i32`.
NativeSetEffect(op, a) ==
  CASE op = "set_title" ->
         IF HasNul(a.s1) THEN Effect("Panic", <<>>, 0, 0)
         ELSE Effect("Ok", <<Call("webview_set_title", CStringNew(a.s1), Empty, 0)>>, 0, 0)
    [] op = "set_size" ->
         Effect("Ok", <<Call("webview_set_size", a.s1, Empty, SizeHintAsI32(a.s2[1]))>>,
                0, 0)
    [] op = "eval" ->
         IF HasNul(a.s1) THEN Effect("Panic", <<>>, 0, 0)
         ELSE Effect("Ok", <<Call("webview_eval", CStringNew(a.s1), Empty, 0)>>, 0, 0)

\* chrome_backend::Webview: nothing unless WebviewData.tab is Some; then
\* tab.evaluate(script, await_promise), or tab.set_bounds after the two
\* try_into().expect(..) (height first); _hints is not used.
ChromeSetEffect(op, a, hasTab) ==
  IF ~hasTab THEN Effect("Ok", <<>>, 0, 0)
  ELSE CASE op = "set_title" ->
              Effect("Ok", <<Call("tab.evaluate", TitleScript(a.s1), Empty, 0)>>, 0, 0)
         [] op = "set_size" ->
              IF TryIntoU32Ok(a.s1[2]) /\ TryIntoU32Ok(a.s1[1])
              THEN Effect("Ok", <<Call("tab.set_bounds", a.s1, Empty, 0)>>, 0, 0)
              ELSE Effect("Panic", <<>>, 0, 0)
         [] op = "eval" ->
              Effect("Ok", <<Call("tab.evaluate", a.s1, Empty, 1)>>, 0, 0)

SetEffect(b, op, a, hasTab) ==
  IF b = "native" THEN NativeSetEffect(op, a)
  ELSE ChromeSetEffect(op, a, TabIsSome(hasTab))

WebviewSet(u, op, a) ==
  /\ OwnerCanAct(u)
  /\ TakesReadLock(backend, op) => CanRead(rw)
  /\ last' = Out("wv", op, a, Pre, SetEffect(backend, op, a, tab))
  /\ UNCHANGED <<backend, vopen, vweak, vinfl, rw, probeOk, owners, strong, weak, inflight, runSt, runner, quit,
                 chan, tab, dq, dcl, druns, bcl, bname, einv, bcalls, destroyed,
                 termIssued>>

\* ------------------------------------------------------------ WebviewMut
\* #[derive(Clone)] on WebviewMut: one more Weak to the same cell.
CloneMut ==
  /\ weak > 0
  /\ CanCreate
  /\ weak' = weak + 1
  /\ last' = NoLast
  /\ UNCHANGED <<backend, vopen, vweak, vinfl, rw, probeOk, owners, strong, inflight, runSt, runner, quit, chan, tab,
                 dq, dcl, druns, bcl, bname, einv, bcalls, destroyed, termIssued>>

\* A WebviewMut operation is called, on any thread.  One that upgrades either
\* fails with Error::WebviewNull or holds a temporary strong reference until
\* it ends (WmFinish); a chrome operation that does not upgrade ends at once.
WmInvoke(op, a) ==
  /\ IdleMuts > 0
  /\ IF WmUpgrades(backend, op)
     THEN IF UpgradeOk(strong)
          THEN /\ strong' = strong + 1
               /\ inflight' = inflight (+) SetToBag({[op |-> op, a |-> a, pre |-> WmPre(op)]})
               /\ dcl' = IF op = "dispatch" THEN [dcl EXCEPT ![a.c] = "passed"] ELSE dcl
               /\ bcl' = IF op = "bind" THEN [bcl EXCEPT ![a.c] = "passed"] ELSE bcl
               /\ last' = NoLast
               /\ UNCHANGED <<chan, termIssued>>
          ELSE /\ last' = Out("wm", op, a, WmPre(op), Effect("Err", <<>>, 0, 0))
               /\ dcl' = IF op = "dispatch" THEN [dcl EXCEPT ![a.c] = "dropped"] ELSE dcl
               /\ bcl' = IF op = "bind" THEN [bcl EXCEPT ![a.c] = "dropped"] ELSE bcl
               /\ UNCHANGED <<strong, inflight, chan, termIssued>>
     ELSE LET eff == WmEffect(backend, op, a)
          IN /\ last' = Out("wm", op, a, WmPre(op), eff)
             /\ dcl' = IF op = "dispatch"
                       THEN [dcl EXCEPT ![a.c] = DispatchClosureAfter(eff, a.c)] ELSE dcl
             /\ bcl' = IF op = "bind" THEN [bcl EXCEPT ![a.c] = BindClosureAfter(eff)] ELSE bcl
             /\ chan + eff.sigs <= MaxSignals
             /\ chan' = ShutdownSend(chan, eff.sigs)
             /\ termIssued' = (termIssued \/ eff.sigs > 0)
             /\ UNCHANGED <<strong, inflight>>
  /\ UNCHANGED <<backend, vopen, vweak, vinfl, rw, probeOk, owners, weak, runSt, runner, quit, tab, dq, druns,
                 bname, einv, bcalls, destroyed>>

\* The operation's body after its upgrade, then the temporary strong
\* reference is dropped (an Arc of the raw handle or of the RwLock: dropping
\* it runs no Drop of Webview).
WmFinish(r) ==
  /\ BagIn(r, inflight)
  /\ TakesReadLock(backend, r.op) => CanRead(rw)
  /\ LET eff == WmEffect(backend, r.op, r.a)
     IN /\ EngineApply(eff.calls, eff.sigs)
        /\ ClosuresApply(r.op, r.a, eff)
        /\ last' = Out("wm", r.op, r.a, r.pre, eff)
  /\ strong' = strong - 1
  /\ inflight' = inflight (-) SetToBag({r})
  /\ UNCHANGED <<backend, vopen, vweak, vinfl, rw, probeOk, owners, weak, runSt, runner, tab, einv, bcalls>>


\* ------------------------------------------------------------------ run()
\* run() up to its navigation.  Native: CString::new(self.url).expect(..),
\* then webview_navigate.  Chrome: launch the browser, take the initial tab,
\* tab.navigate_to(self.url).
RunEffect(b, u) ==
  IF b = "native"
  THEN IF HasNul(u) THEN Effect("Panic", <<>>, 0, 0)
       ELSE Effect("Ok", <<Call("webview_navigate", CStringNew(u), Empty, 0)>>, 0, 0)
  ELSE Effect("Ok", <<Call("tab.navigate_to", u, Empty, 0)>>, 0, 0)

RunStart(u) ==
  /\ runSt = "idle"
  /\ OwnerCanAct(u)
  /\ LET eff == RunEffect(backend, u)
     IN /\ last' = Out("run", "run", Args(u, Empty, 0), Pre, eff)
        /\ IF eff.res = "Panic"
           THEN runSt' = "panicked" /\ UNCHANGED <<owners, runner>>
           ELSE /\ runSt' = "launched"
                /\ owners' = owners (-) SetToBag({u})
                /\ runner' = <<u>>
  /\ UNCHANGED <<backend, vopen, vweak, vinfl, rw, probeOk, strong, weak, inflight, quit, chan, tab, dq,
                 dcl, druns, bcl, bname, einv, bcalls, destroyed, termIssued>>

\* Native: webview_run is entered.  Chrome: the browser and the tab are stored
\* in WebviewData under the write lock (taken and released twice), the poll
\* thread is spawned, and run() reaches recv() holding a read guard: the
\* temporary of self.data.read().unwrap() lives to the end of the statement.
RunEnter ==
  /\ runSt = "launched"
  /\ runSt' = "blocked"
  /\ tab' = IF backend = "chrome" THEN TRUE ELSE tab
  /\ IF backend = "chrome"
     THEN /\ CanWrite(rw)
          /\ CanRead(rw)
          /\ rw' = [rw EXCEPT !.readers = @ + 1]
     ELSE rw' = rw
  /\ last' = NoLast
  /\ UNCHANGED <<backend, vopen, vweak, vinfl, probeOk, owners, strong, weak, inflight, runner, quit, chan,
                 dq, dcl, druns, bcl, bname, einv, bcalls, destroyed, termIssued>>

\* Receiver::recv(): returns once a signal is queued, and takes it.
CanRecv(ch) == ch > 0

\* run() returns.  Native: the main loop stops once webview_terminate was
\* called.  Chrome: recv() takes one signal from the shutdown channel.
RunReturn ==
  /\ runSt = "blocked"
  /\ IF backend = "native"
     THEN quit /\ ~vopen /\ chan' = chan /\ rw' = rw
     ELSE /\ CanRecv(chan)
          /\ chan' = chan - 1
          /\ rw' = [rw EXCEPT !.readers = @ - 1]
  /\ runSt' = "returned"
  /\ owners' = owners (+) SetToBag({runner[1]})
  /\ runner' = <<>>
  /\ last' = NoLast
  /\ UNCHANGED <<backend, vopen, vweak, vinfl, probeOk, strong, weak, inflight, quit, tab,
                 dq, dcl, druns, bcl, bname, einv, bcalls, destroyed, termIssued>>

\* -------------------------------------------------- the chrome poll thread
\* (mutant) a poll thread that only probes.
ProbeNeverSignals(ok) == 0

\* if let Err(e) = _tab.evaluate("window", false) { shutdown_sender.send(()).ok(); }
ProbeSignals(ok) == IF ok THEN 0 ELSE 1

\* The connection to the browser is lost (the browser exits, the socket
\* closes): from then on every probe fails.
ConnectionLost ==
  /\ backend = "chrome"
  /\ tab
  /\ probeOk
  /\ probeOk' = FALSE
  /\ last' = NoLast
  /\ UNCHANGED <<backend, vopen, vweak, vinfl, rw, owners, strong, weak, inflight, runSt, runner,
                 quit, chan, tab, dq, dcl, druns, bcl, bname, einv, bcalls,
                 destroyed, termIssued>>

\* One round of the poll thread's loop (spawned by run(), it never exits):
\* sleep, probe the tab it holds a clone of, send on its clone of the sender
\* if the probe failed.
PollProbe ==
  /\ backend = "chrome"
  /\ tab
  /\ LET sigs == ProbeSignals(probeOk)
     IN /\ chan + sigs <= MaxSignals
        /\ chan' = ShutdownSend(chan, sigs)
        /\ last' = Out("poll", "probe", NoArgs, NoPre,
                       Effect("Ok", <<Call("tab.evaluate", <<119>>, Empty, 0)>>, sigs, 0))
  /\ UNCHANGED <<backend, vopen, vweak, vinfl, rw, probeOk, owners, strong, weak, inflight, runSt,
                 runner, quit, tab, dq, dcl, druns, bcl, bname, einv, bcalls,
                 destroyed, termIssued>>

\* ------------------------------------------------ the native engine's loop
\* How often the dispatch callback calls the closure it rebuilt with
\* Box::from_raw (the FnOnce is consumed by the call, the box freed with it).
DispatchCallbackRuns == 1

\* What the dispatch closure does with the view it is given: nothing, it calls
\* terminate() on it, or it calls as_mut() on it and hands the WebviewMut to
\* another thread (WebviewMut is Send) before it goes on.
Bodies == {"noop", "terminate", "as_mut"}

BodyCalls(body) ==
  IF body = "terminate" THEN NativeWebviewEffect("terminate", NoArgs).calls ELSE <<>>

\* (mutant) a view that is a clone of the owner's Arc.
ViewOnOwnerCell(ownerStrong, viewStrong) == ownerStrong + viewStrong

\* inner: Arc::new(webview): the view's Arc is a fresh cell around the raw
\* handle; its strong count is its own, the owner's cell is not touched.
ViewCell(ownerStrong, viewStrong) == viewStrong

\* The strong count of the cell of the view as_mut() was called on: the view
\* itself while its callback runs, and the upgrades in flight.
ViewStrong == (IF vopen THEN 1 ELSE 0) + BagCardinality(vinfl)

\* The engine takes the next dispatch entry and calls callback(webview, arg):
\* a Webview view on a fresh Arc of the raw handle, the closure rebuilt and
\* called with it.  A closure that shares nothing returns at once and the view
\* is dropped, its strong count 1; one that handed out a WebviewMut is still
\* running when other threads act (EngineDispatchEnd).
EngineDispatch(body) ==
  /\ backend = "native"
  /\ runSt = "blocked"
  /\ ~vopen
  /\ dq # <<>>
  /\ body = "as_mut" => (vweak = 0 /\ CanCreate)
  /\ LET c == Head(dq)
         viewStrong == 1
         calls == IF body = "as_mut" THEN BodyCalls(body)
                  ELSE BodyCalls(body) \o DropCalls(viewStrong)
     IN /\ dcl' = [dcl EXCEPT ![c] = "consumed"]
        /\ druns' = [druns EXCEPT ![c] = @ + DispatchCallbackRuns]
        /\ quit' = QuitAfter(quit, calls)
        /\ destroyed' = DestroyedAfter(destroyed, calls)
        /\ termIssued' = (termIssued \/ HasCall(calls, "webview_terminate"))
        /\ last' = Out("callback", "dispatch", Args(Empty, Empty, c), Pre,
                       Effect("Ok", calls, 0, c))
  /\ dq' = Tail(dq)
  /\ vopen' = (body = "as_mut")
  /\ vweak' = IF body = "as_mut" THEN vweak + 1 ELSE vweak
  /\ UNCHANGED <<backend, vinfl, rw, probeOk, owners, strong, weak, inflight, runSt,
                 runner, chan, tab, bcl, bname, einv, bcalls>>

\* The closure returns and the callback ends: the view is dropped.  Drop::drop
\* reads the strong count of the view's cell, then the view's Arc goes.
EngineDispatchEnd ==
  /\ vopen
  /\ LET calls == DropCalls(ViewStrong)
     IN /\ quit' = QuitAfter(quit, calls)
        /\ destroyed' = DestroyedAfter(destroyed, calls)
        /\ termIssued' = (termIssued \/ HasCall(calls, "webview_terminate"))
        /\ last' = Out("callback", "view_drop", NoArgs, Pre, Effect("Ok", calls, 0, 0))
  /\ vopen' = FALSE
  /\ UNCHANGED <<backend, vweak, vinfl, rw, probeOk, owners, strong, weak, inflight,
                 runSt, runner, chan, tab, dq, dcl, druns, bcl, bname, einv, bcalls>>

\* ------------------------------------------- a WebviewMut made from a view
\* The operations on a WebviewMut that borrow it shared (&self).
SharedOps == {"get_window", "return"}

\* What held when an operation on the view's WebviewMut was invoked.
ViewPre ==
  [gone |-> ViewStrong = 0, owned |-> owners # EmptyBag \/ runner # <<>>,
   signalled |-> FALSE, running |-> vopen]

\* An operation of webview_backend::WebviewMut is called, on any thread, on
\* the WebviewMut a dispatch closure made from its view: the upgrade is on the
\* view's cell.
ViewMutInvoke(op, a) ==
  /\ vweak > 0
  /\ BagCardinality(vinfl) < MaxShared
  /\ IF op \in SharedOps THEN \A r \in BagToSet(vinfl) : r.op \in SharedOps
     ELSE vinfl = EmptyBag
  /\ IF UpgradeOk(ViewCell(strong, ViewStrong))
     THEN /\ vinfl' = vinfl (+) SetToBag({[op |-> op, a |-> a, pre |-> ViewPre]})
          /\ dcl' = IF op = "dispatch" THEN [dcl EXCEPT ![a.c] = "passed"] ELSE dcl
          /\ bcl' = IF op = "bind" THEN [bcl EXCEPT ![a.c] = "passed"] ELSE bcl
          /\ last' = NoLast
     ELSE /\ last' = Out("vwm", op, a, ViewPre, Effect("Err", <<>>, 0, 0))
          /\ dcl' = IF op = "dispatch" THEN [dcl EXCEPT ![a.c] = "dropped"] ELSE dcl
          /\ bcl' = IF op = "bind" THEN [bcl EXCEPT ![a.c] = "dropped"] ELSE bcl
          /\ vinfl' = vinfl
  /\ UNCHANGED <<backend, vopen, vweak, rw, probeOk, owners, strong, weak, inflight,
                 runSt, runner, quit, chan, tab, dq, druns, bname, einv, bcalls,
                 destroyed, termIssued>>

\* The operation's body after its upgrade, on the raw handle the view's cell
\* holds; then the temporary strong reference is dropped.
ViewMutFinish(r) ==
  /\ BagIn(r, vinfl)
  /\ LET eff == NativeWmEffect(r.op, r.a)
     IN /\ EngineApply(eff.calls, eff.sigs)
        /\ ClosuresApply(r.op, r.a, eff)
        /\ last' = Out("vwm", r.op, r.a, r.pre, eff)
  /\ vinfl' = vinfl (-) SetToBag({r})
  /\ UNCHANGED <<backend, vopen, vweak, rw, probeOk, owners, strong, weak, inflight,
                 runSt, runner, tab, einv, bcalls>>

\* (mutant) the callback without mem::forget: the rebuilt box is dropped.
BindBoxDropped(st) == "freed"

\* The bind callback's last statement, mem::forget(f): the box it rebuilt with
\* Box::from_raw is not freed, the closure stays allocated.
BindBoxAfterCall(st) == st

\* The arguments the bind closure receives: CStr::from_ptr(..).to_str() of
\* the engine's C strings.
BindCallbackArgs(cseq, creq) == <<CStrToStr(cseq), CStrToStr(creq)>>

\* Page script calls a bound function: the engine calls callback(seq, req, arg)
\* with the registration's closure pointer.
EngineInvoke(n) ==
  /\ backend = "native"
  /\ runSt = "blocked"
  /\ ~vopen
  /\ bname[n] # 0
  /\ LET b == bname[n]
         seq == ScriptCall(Len(einv[b]) + 1)[1]
         req == ScriptCall(Len(einv[b]) + 1)[2]
     IN /\ Len(einv[b]) < MaxInv
        /\ einv' = [einv EXCEPT ![b] = Append(@, <<seq, req>>)]
        /\ bcalls' = [bcalls EXCEPT ![b] =
                        Append(@, BindCallbackArgs(CStringNew(seq), CStringNew(req)))]
        /\ bcl' = [bcl EXCEPT ![b] = BindBoxAfterCall(@)]
        /\ last' = Out("callback", "bind", Args(seq, req, b), Pre,
                       Effect("Ok", <<>>, 0, b))
  /\ UNCHANGED <<backend, vopen, vweak, vinfl, rw, probeOk, owners, strong, weak, inflight, runSt, runner, quit,
                 chan, tab, dq, dcl, druns, bname, destroyed, termIssued>>

\* ------------------------------------------------------------------- Next
Next ==
  \/ \E u \in BagToSet(owners) : CloneWebview(u)
  \/ \E u \in BagToSet(owners) : DropWebview(u)
  \/ \E u \in BagToSet(owners) : AsMut(u)
  \/ \E u \in BagToSet(owners), op \in Ops, body \in {"noop", "terminate"} :
       CanCall(op) /\ \E a \in ArgsFor(op) : WebviewOp(u, op, a, body)
  \/ \E u \in BagToSet(owners), v \in Urls : Navigate(u, v)
  \/ CloneMut
  \/ \E op \in Ops : CanCall(op) /\ \E a \in ArgsFor(op) : WmInvoke(op, a)
  \/ \E r \in BagToSet(inflight) : WmFinish(r)
  \/ \E u \in BagToSet(owners) : RunStart(u)
  \/ RunEnter
  \/ RunReturn
  \/ ConnectionLost
  \/ PollProbe
  \/ \E body \in Bodies : EngineDispatch(body)
  \/ EngineDispatchEnd
  \/ \E op \in Ops : CanCall(op) /\ \E a \in ArgsFor(op) : ViewMutInvoke(op, a)
  \/ \E r \in BagToSet(vinfl) : ViewMutFinish(r)
  \/ \E n \in CNames : EngineInvoke(n)

Spec == Init /\ [][Next]_vars


\* run() makes progress on its own thread: it enters its blocking call, and
\* it returns once the engine's loop was told to stop or recv() has a signal.
\* The poll thread keeps looping, a WebviewMut operation past its upgrade
\* runs to its end on its own thread, and a dispatch closure returns.
FairSpec ==
  /\ Spec
  /\ WF_vars(RunEnter)
  /\ WF_vars(RunReturn)
  /\ WF_vars(PollProbe)
  /\ WF_vars(\E r \in BagToSet(inflight) : WmFinish(r))
  /\ WF_vars(EngineDispatchEnd)

\* The owner thread's session operations alone: run() and what ends it,
\* navigate, and set_title, set_size and eval with every argument.  These
\* three read WebviewData.tab and change no state, so they are explored
\* against the session's states only.
SetNext ==
  \/ \E u \in BagToSet(owners) : WebviewOp(u, "terminate", NoArgs, "noop")
  \/ \E u \in BagToSet(owners), v \in Urls : Navigate(u, v)
  \/ \E u \in BagToSet(owners), op \in SetOps :
       \E a \in SetArgsFor(op) : WebviewSet(u, op, a)
  \/ \E u \in BagToSet(owners) : RunStart(u)
  \/ RunEnter
  \/ RunReturn
  \/ ConnectionLost
  \/ PollProbe

SetSpec == Init /\ [][SetNext]_vars

\* ================================================================ claims

\* C1: a WebviewMut operation invoked after every owning Webview has been
\* dropped (strong count 0) returns Error::WebviewNull, makes no engine call
\* and sends no shutdown signal -- in both backends.
C1_WeakAfterDropIsNull ==
  (last.kind = "wm" /\ last.gone) =>
    (last.res = "Err" /\ last.calls = <<>> /\ last.sigs = 0)

\* C2: a WebviewMut operation invoked while an owning Webview is alive returns
\* Ok and makes the engine calls, sends the signals and runs the closure the
\* same operation on the owning Webview does -- in both backends.
C2_WeakMirrorsOwner ==
  (last.kind = "wm" /\ last.owned) =>
    LET e == WebviewEffect(backend, last.op, last.a)
    IN /\ last.res = "Ok"
       /\ last.calls = e.calls
       /\ last.sigs = e.sigs
       /\ last.ran = e.ran

\* C3: a terminate() issued before run() blocks, or while it is blocked, is
\* not lost: run() returns.  (Chrome: a signal sent before recv() stays
\* queued.)
C3_TerminateNeverLost ==
  (termIssued /\ runSt \in {"launched", "blocked"}) ~> (runSt = "returned")

C3_Witness ==
  backend = "chrome" /\ runSt = "launched" /\ chan > 0 /\ termIssued


\* C4: native backend: the handle is released (webview_destroy) exactly once,
\* when the last strong owner is dropped: not before, and then once.
C4_HandleReleasedOnce ==
  backend = "native" => destroyed = (IF strong = 0 THEN 1 ELSE 0)

\* C5: every closure passed to dispatch, on a Webview or on a live WebviewMut,
\* runs exactly once and not before the dispatch call: it is never run twice,
\* never dropped unrun, and the chrome Webview::dispatch has run it when it
\* returns.
C5_DispatchExactlyOnce ==
  /\ \A c \in DC :
       /\ druns[c] <= 1
       /\ druns[c] = 1 <=> dcl[c] = "consumed"
       /\ dcl[c] = "boxed" <=> Len(SelectSeq(dq, LAMBDA x : x = c)) = 1
  /\ (last.kind \in {"wv", "wm"} /\ last.op = "dispatch" /\ ~last.gone) =>
       dcl[last.a.c] \in {"boxed", "consumed"}
  /\ (last.kind = "wv" /\ last.op = "dispatch" /\ backend = "chrome") =>
       druns[last.a.c] = 1
  /\ (last.kind = "callback" /\ last.op = "dispatch") => druns[last.a.c] = 1

\* The same, for the dispatch implementations that take the closure (all but
\* the chrome WebviewMut::dispatch, which is unimplemented!).
DispatchOnceWhereImplemented ==
  /\ \A c \in DC :
       /\ druns[c] <= 1
       /\ druns[c] = 1 <=> dcl[c] = "consumed"
       /\ dcl[c] = "boxed" <=> Len(SelectSeq(dq, LAMBDA x : x = c)) = 1
  /\ (/\ last.kind \in {"wv", "wm"} /\ last.op = "dispatch" /\ ~last.gone
      /\ ~(backend = "chrome" /\ last.kind = "wm")) =>
       dcl[last.a.c] \in {"boxed", "consumed"}
  /\ (last.kind = "wv" /\ last.op = "dispatch" /\ backend = "chrome") =>
       druns[last.a.c] = 1
  /\ (last.kind = "callback" /\ last.op = "dispatch") => druns[last.a.c] = 1

\* C6: a closure registered with bind stays valid: called k times by the
\* engine with (seq_i, req_i) it has received exactly those k pairs in order,
\* no call frees its storage, and return changes no registration.
C6_BindStaysValid ==
  /\ [](\A b \in BC :
          /\ bcalls[b] = einv[b]
          /\ einv[b] # <<>> => bcl[b] = "allocated"
          /\ (\E n \in CNames : bname[n] = b) => bcl[b] = "allocated")
  /\ [][(last'.kind \in {"wv", "wm"} /\ last'.op = "return") =>
          (bname' = bname /\ bcl' = bcl /\ bcalls' = bcalls)]_vars

C6_Witness ==
  \E b \in BC :
    /\ Len(bcalls[b]) = 2
    /\ bcalls[b][1] # bcalls[b][2]
    /\ bcl[b] = "allocated"

\* C7: upgrades from any number of WebviewMut clones succeed while an owning
\* Webview is alive, whatever other upgrades are in flight; once every owner
\* is dropped and no operation is in flight, every upgrade fails.
C7_UpgradesIndependent ==
  /\ (last.kind = "wm" /\ last.res = "Err") => ~last.owned
  /\ (last.kind = "wm" /\ WmUpgrades(backend, last.op) /\ last.gone) => last.res = "Err"
  /\ BagCardinality(inflight) <= strong
  /\ (owners = EmptyBag /\ runner = <<>> /\ inflight = EmptyBag) => strong = 0

C7_Witness ==
  /\ weak >= 2
  /\ BagCardinality(inflight) = weak
  /\ owners # EmptyBag

\* C8: terminate() is idempotent: once termination has been signalled, a
\* further terminate() makes no engine call and queues no signal, and on a
\* WebviewMut whose owner is gone it does nothing.
C8_TerminateIdempotent ==
  (/\ last.kind \in {"wv", "wm"}
   /\ last.op = "terminate"
   /\ (last.signalled \/ last.gone)) =>
    (last.calls = <<>> /\ last.sigs = 0)

\* C9: no WebviewMut operation panics: each ends with Ok or a typed Err.
C9_WeakNeverAborts ==
  last.kind = "wm" => last.res \in {"Ok", "Err"}

\* C11: the size hint set_size passes across the engine boundary is the
\* hint's ordinal, 0 for NONE, 1 for MIN, 2 for MAX and 3 for FIXED, for every
\* hint value; the default hint is NONE, passed as 0.
C11_SizeHintOrdinals ==
  /\ (last.kind = "wv" /\ last.op = "set_size") =>
        /\ backend = "native" =>
              /\ Len(last.calls) = 1
              /\ last.calls[1].fn = "webview_set_size"
        /\ \A i \in 1..Len(last.calls) :
              last.calls[i].fn = "webview_set_size" =>
                last.calls[i].c =
                  (CASE last.a.s2[1] = "NONE" -> 0
                     [] last.a.s2[1] = "MIN" -> 1
                     [] last.a.s2[1] = "MAX" -> 2
                     [] last.a.s2[1] = "FIXED" -> 3)
  /\ NativeSetEffect("set_size", Args(<<2, 3>>, <<SizeHintDefault>>, 0)).calls[1].c = 0

C11_Witness ==
  /\ last.kind = "wv" /\ last.op = "set_size" /\ last.a.s2 = <<"FIXED">>
  /\ last.calls # <<>> /\ last.calls[1].fn = "webview_set_size"

\* The engine navigation to url u, as the backend issues it.
NavigationTo(u) ==
  IF backend = "native" THEN Call("webview_navigate", CStringNew(u), Empty, 0)
  ELSE Call("tab.navigate_to", u, Empty, 0)

\* C10: navigate(url) records url as the Webview's target and, when the
\* session is running, also navigates the engine to it at once; run()
\* navigates to the recorded target before it blocks -- in both backends.
C10_NavigateRecordsAndRenavigates ==
  /\ (last.kind = "wv" /\ last.op = "navigate") =>
       /\ BagIn(last.a.s1, owners)
       /\ last.running => last.calls = <<NavigationTo(last.a.s1)>>
  /\ (last.kind = "run" /\ last.res = "Ok") =>
       last.calls = <<NavigationTo(last.a.s1)>>

\* The operations of the chrome Webview that act on the tab.
TabOps == SetOps \cup {"navigate"}

\* C15 (as stated): chrome backend: with no tab stored, set_title, set_size,
\* eval and navigate make no engine call; with a tab present each of them
\* issues exactly one engine call, on that tab.
C15_TabGatesEngineCalls ==
  (backend = "chrome" /\ last.kind = "wv" /\ last.op \in TabOps) =>
    IF last.running
    THEN /\ Len(last.calls) = 1
         /\ last.calls[1].fn \in {"tab.evaluate", "tab.set_bounds", "tab.navigate_to"}
    ELSE last.calls = <<>>

\* Whether set_size's width and height are both representable as u32.
SizeFitsU32(a) == a.s1[1] >= 0 /\ a.s1[2] >= 0

\* C15 (amended): chrome backend: with no tab stored, set_title, set_size and
\* eval make no engine call and change no state, and navigate only records
\* the url; with a tab present each of them issues exactly one engine call on
\* that tab, except set_size with a negative width or height, which panics
\* before any call.  None of them changes any other state.
C15_TabGatesCallsForU32Sizes ==
  /\ []((backend = "chrome" /\ last.kind = "wv" /\ last.op \in TabOps) =>
          IF ~last.running THEN last.calls = <<>> /\ last.res = "Ok"
          ELSE IF last.op = "set_size" /\ ~SizeFitsU32(last.a)
               THEN last.calls = <<>> /\ last.res = "Panic"
               ELSE /\ Len(last.calls) = 1
                    /\ last.res = "Ok"
                    /\ last.calls[1].fn =
                         (CASE last.op = "set_size" -> "tab.set_bounds"
                            [] last.op = "navigate" -> "tab.navigate_to"
                            [] OTHER -> "tab.evaluate"))
  /\ [][(backend = "chrome" /\ last'.kind = "wv" /\ last'.op \in TabOps) =>
          /\ UNCHANGED <<strong, weak, inflight, runSt, runner, quit, chan, tab,
                          dq, dcl, druns, bcl, bname, einv, bcalls, destroyed,
                          termIssued>>
          /\ IF last'.op = "navigate"
             THEN \E u \in BagToSet(owners) :
                    owners' = (owners (-) SetToBag({u})) (+) SetToBag({last'.a.s1})
             ELSE owners' = owners]_vars

C15_Witness ==
  /\ backend = "chrome" /\ last.kind = "wv" /\ last.op = "set_size"
  /\ last.running /\ Len(last.calls) = 1

\* C14: chrome backend: once the probe fails while run() is blocked, the poll
\* thread sends the shutdown signal and run() returns; while the probes
\* succeed and nobody has called terminate, run() stays blocked; and the poll
\* thread changes no shared state but the shutdown channel.
C14_PollThreadEndsRun ==
  /\ (backend = "chrome" /\ runSt = "blocked" /\ ~probeOk) ~> (runSt = "returned")
  /\ [](backend = "chrome" /\ chan > 0 => termIssued \/ ~probeOk)
  /\ [][(backend = "chrome" /\ runSt = "blocked" /\ probeOk /\ ~termIssued) =>
          runSt' = "blocked"]_vars
  /\ [][last'.kind = "poll" =>
          UNCHANGED <<backend, owners, strong, weak, inflight, runSt, runner, quit,
                      tab, dq, dcl, druns, bcl, bname, einv, bcalls, destroyed,
                      termIssued, rw, probeOk>>]_vars

C14_Witness ==
  /\ backend = "chrome" /\ runSt = "returned" /\ ~probeOk /\ ~termIssued

\* C16: chrome backend: run() holds a read guard on WebviewData for as long
\* as it blocks in recv(); terminate() takes a read guard too, so a
\* terminate() under way while run() is blocked gets the lock and sends: run()
\* returns, it never waits for a signal terminate() cannot send.
C16_TerminatePassesRunsReadLock ==
  /\ []((backend = "chrome" /\ runSt = "blocked") => (rw.readers >= 1 /\ ~rw.writer))
  /\ (/\ backend = "chrome"
      /\ runSt = "blocked"
      /\ \E r \in BagToSet(inflight) : r.op = "terminate") ~> (runSt = "returned")

C16_Witness ==
  /\ backend = "chrome" /\ runSt = "blocked" /\ rw.readers = 1
  /\ \E r \in BagToSet(inflight) : r.op = "terminate"
  /\ chan = 0 /\ probeOk

\* C12: no engine call is made on the handle after webview_destroy:
\* webview_destroy comes only after every strong reference (owning Webviews,
\* clones, the temporary references of WebviewMut operations in flight) is
\* gone, it is the last call of its step, and after it no call is made and
\* no upgrade succeeds -- whatever the interleaving of drops and operations.
C12_NoCallAfterDestroy ==
  /\ [](destroyed > 0 => (strong = 0 /\ inflight = EmptyBag /\ ViewStrong = 0))
  /\ [](\A i \in 1..Len(last.calls) :
          last.calls[i].fn = "webview_destroy" => i = Len(last.calls))
  /\ [][destroyed > 0 =>
          /\ last'.calls = <<>>
          /\ BagCardinality(inflight') <= BagCardinality(inflight)
          /\ BagCardinality(vinfl') <= BagCardinality(vinfl)]_vars

\* The last owner was dropped while a WebviewMut operation was past its
\* upgrade, and the operation then made its engine call.
C12_Witness ==
  /\ backend = "native" /\ owners = EmptyBag /\ runner = <<>> /\ strong = 0
  /\ last.kind = "wm" /\ last.calls # <<>> /\ last.owned /\ destroyed = 0

\* C13: the view the dispatch callback builds is non-owning in effect: when
\* it goes out of scope neither webview_terminate nor webview_destroy is
\* called (the callback's only calls are the closure's own), and the owner's
\* strong and weak counts, its WebviewMuts and the owners are untouched.
C13_ViewDropReleasesNothing ==
  [][(last'.kind = "callback" /\ last'.op \in {"dispatch", "view_drop"}) =>
       /\ UNCHANGED <<owners, runner, strong, weak, inflight, destroyed>>
       /\ IF last'.op = "view_drop" THEN last'.calls = <<>>
          ELSE last'.calls \in {BodyCalls(b) : b \in Bodies}]_vars

C13_Witness ==
  /\ last.kind = "callback" /\ last.op = "view_drop" /\ last.calls = <<>>
  /\ strong = 1 /\ runner # <<>> /\ destroyed = 0

\* C17: native backend: webview_destroy is called at most once on the handle,
\* and Drop calls webview_terminate (and webview_destroy) only when no other
\* strong reference to the dropped value's cell is left.
C17_NoDoubleFree ==
  backend = "native" =>
    /\ destroyed <= 1
    /\ (last.kind = "drop" /\ HasCall(last.calls, "webview_terminate")) => strong = 0
    /\ (last.kind = "callback" /\ HasCall(last.calls, "webview_destroy")) =>
         ViewStrong = 0

C17_Witness ==
  /\ backend = "native" /\ last.kind = "drop" /\ strong = 0
  /\ \E c \in DC : druns[c] = 1

\* C18 (as stated): native backend: every operation on a WebviewMut made from
\* a dispatch callback's view, invoked after the dispatch closure has
\* returned, fails with Error::WebviewNull and makes no engine call.
C18_ViewMutFailsAfterClosure ==
  (last.kind = "vwm" /\ ~last.running) => (last.res = "Err" /\ last.calls = <<>>)

\* C18 (amended): such a WebviewMut observes the view's own cell: an operation
\* on it fails with Error::WebviewNull, making no engine call, exactly when it
\* is invoked with that cell's strong count 0, that is after the closure has
\* returned and with no earlier operation on it still in flight -- whether or
\* not the real owning Webview is alive.
C18_ViewMutFailsOnceCellIsGone ==
  /\ (last.kind = "vwm" /\ last.gone) => (last.res = "Err" /\ last.calls = <<>>)
  /\ (last.kind = "vwm" /\ last.res = "Err") => last.gone

C18_Witness ==
  /\ last.kind = "vwm" /\ last.res = "Err" /\ last.owned /\ ~last.running
  /\ strong > 0

====
